---- MODULE Spec2Model ----
(***************************************************************************)
(* A model of DBOperations/import_verbs.py: the tag classifier             *)
(* (parse_tags, should_keep_form), the entity resolver (ensure_pos,        *)
(* ensure_dialect, ensure_lemma), the lemma metadata update and the import *)
(* driver import_jsonl with its batched commits.                           *)
(*                                                                         *)
(* Optional values (Python None / SQL NULL) are sets of at most one        *)
(* element: None is {} and a present value v is {v}.  Tables of the store  *)
(* are sequences of rows; a row's id is its index (INTEGER PRIMARY KEY     *)
(* without deletions: lastrowid = number of rows).                         *)
(***************************************************************************)
EXTENDS Integers, Sequences, FiniteSets, TLC

VARIABLES
    input,              \* the lines of the JSONL file
    allowed_pos,        \* import_jsonl's allowed_pos argument
    run,                \* number of import runs started
    pc,                 \* position of the driver inside import_jsonl
    line_no,            \* number of lines consumed in this run
    db,                 \* the committed store (what survives the connection)
    tx,                 \* the store as the connection sees it (with its open transaction)
    pos_cache, dialect_cache, lemma_cache,
    inserted, skipped_reasons, skipped_pos_counts,
    cur,                \* locals of the entry in progress: pos_id, lemma_id, idx, fidx
    last_commit,        \* history: value of inserted at the last commit of this run
    summary,            \* history: one record per run that reached its end
    tags, parsed,       \* a tag list given to parse_tags on its own, and the result
    prev_tags, prev_parsed,   \* history: the tag list and the result before it
    tpc,                \* "off", "input", "parsed" or "reparsed"
    schema_db,          \* the store the Schema Manager is run on: columns, rows, indexes
    schema_db_before,   \* history: that store before the last run of the Schema Manager
    schema_runs         \* number of runs of the Schema Manager on that store

driver_vars == <<input, allowed_pos, run, pc, line_no, db, tx, pos_cache, dialect_cache,
                 lemma_cache, inserted, skipped_reasons, skipped_pos_counts, cur,
                 last_commit, summary>>
tag_vars == <<tags, parsed, prev_tags, prev_parsed, tpc>>
schema_vars == <<schema_db, schema_db_before, schema_runs>>
vars == <<driver_vars, tag_vars, schema_vars>>

None == {}
Some(v) == {v}
Val(o) == CHOOSE v \in o : TRUE

(***************************************************************************)
(* Bounds of the model.                                                    *)
(***************************************************************************)
MaxLines == 3       \* lines in an input stream
MaxRuns == 2        \* import runs over the same store
MaxTags == 3        \* tags in a tag list given to parse_tags
MaxFormTags == 2    \* tags of a form entry in the form admission streams
CommitEvery == 2    \* the commit_every argument (K)
MaxSchemaRuns == 2  \* runs of the Schema Manager on one store

(***************************************************************************)
(* The vocabulary tables, in their declared order: <<key, value>> pairs.   *)
(***************************************************************************)
DIALECT_TAGS == << <<"attic", "attic">>, <<"ionic", "ionic">>, <<"epic", "epic">>,
                   <<"homeric", "homeric">>, <<"koine", "koine">>,
                   <<"byzantine", "byzantine">>, <<"doric", "doric">>,
                   <<"aeolic", "aeolic">> >>

CASE_TAGS == << <<"nominative", "nominative">>, <<"genitive", "genitive">>,
                <<"dative", "dative">>, <<"accusative", "accusative">>,
                <<"vocative", "vocative">> >>

NUMBER_TAGS == << <<"singular", "singular">>, <<"dual", "dual">>, <<"plural", "plural">> >>

GENDER_TAGS == << <<"masculine", "masculine">>, <<"feminine", "feminine">>,
                  <<"neuter", "neuter">> >>

PERSON_TAGS == << <<"first-person", "first-person">>, <<"second-person", "second-person">>,
                  <<"third-person", "third-person">> >>

TENSE_TAGS == << <<"present", "present">>, <<"imperfect", "imperfect">>,
                 <<"future", "future">>, <<"aorist", "aorist">>, <<"perfect", "perfect">>,
                 <<"pluperfect", "pluperfect">>, <<"future-perfect", "future-perfect">> >>

MOOD_TAGS == << <<"indicative", "indicative">>, <<"imperative", "imperative">>,
                <<"subjunctive", "subjunctive">>, <<"optative", "optative">> >>

\* the voice table with a key of the tense table in it
VOICE_TAGS_overlapping == << <<"active", "active">>, <<"middle", "middle">>,
                             <<"passive", "passive">>, <<"perfect", "middle-passive">> >>

VOICE_TAGS == << <<"active", "active">>, <<"middle", "middle">>, <<"passive", "passive">>,
                 <<"middle-passive", "middle-passive">> >>

DEGREE_TAGS == << <<"positive", "positive">>, <<"comparative", "comparative">>,
                  <<"superlative", "superlative">> >>

VERB_FORM_TAGS == << <<"finite", "finite">>, <<"infinitive", "infinitive">>,
                     <<"participle", "participle">> >>

POS_ALIASES == [adjective |-> "adj", adj |-> "adj", adverb |-> "adv", adv |-> "adv",
                pronoun |-> "pron", pron |-> "pron", preposition |-> "prep",
                prep |-> "prep", conjunction |-> "conj", conj |-> "conj",
                interjection |-> "intj", intj |-> "intj", determiner |-> "det",
                det |-> "det", article |-> "article", particle |-> "particle",
                noun |-> "noun", verb |-> "verb", number |-> "num", num |-> "num",
                name |-> "name", prefix |-> "prefix", suffix |-> "suffix",
                postposition |-> "postp", postp |-> "postp"]
             @@ ("proper noun" :> "name")

(***************************************************************************)
(* str.lower() and str.strip() on the strings the model's inputs use: the  *)
(* strings below are the ones with an upper-case letter or surrounding     *)
(* white space; every other string of the model is left as it is.          *)
(***************************************************************************)
LowerTable == ("Singular" :> "singular") @@ ("Attic" :> "attic")
           @@ ("Romanization" :> "romanization")
           @@ ("Logos" :> "logos") @@ ("Logoi" :> "logoi")
           @@ ("Noun" :> "noun") @@ ("ADJ" :> "adj") @@ ("Verb" :> "verb")

StripTable == (" " :> "") @@ (" verb " :> "verb") @@ (" Verb " :> "Verb")

lower(s) == IF s \in DOMAIN LowerTable THEN LowerTable[s] ELSE s

strip(s) == IF s \in DOMAIN StripTable THEN StripTable[s] ELSE s

normalize(text) == lower(text)

(***************************************************************************)
(* json.dumps of a list of strings, and dumps_or_none.                     *)
(***************************************************************************)
RECURSIVE JoinQuoted(_)
JoinQuoted(s) ==
    IF s = <<>> THEN ""
    ELSE IF Len(s) = 1 THEN "\"" \o s[1] \o "\""
    ELSE "\"" \o s[1] \o "\", " \o JoinQuoted(Tail(s))

json_dumps(value) == "[" \o JoinQuoted(value) \o "]"

dumps_or_none(value) ==
    IF value = None THEN None
    ELSE IF Val(value) = <<>> THEN None
    ELSE Some(json_dumps(Val(value)))

(***************************************************************************)
(* parse_tags and its inner function pick.                                 *)
(***************************************************************************)
RECURSIVE pick_last(_, _)
pick_last(mapping, tags_lc) ==
    IF mapping = <<>> THEN None
    ELSE IF mapping[Len(mapping)][1] \in tags_lc THEN Some(mapping[Len(mapping)][2])
    ELSE pick_last(SubSeq(mapping, 1, Len(mapping) - 1), tags_lc)

RECURSIVE pick(_, _)
pick(mapping, tags_lc) ==
    IF mapping = <<>> THEN None
    ELSE IF mapping[1][1] \in tags_lc THEN Some(mapping[1][2])
    ELSE pick(Tail(mapping), tags_lc)

Keys(mapping) == {mapping[i][1] : i \in DOMAIN mapping}

\* A classifier that takes the first tag of the input list that is in the vocabulary.
RECURSIVE pick_in_input_order(_, _)
pick_in_input_order(mapping, ts) ==
    IF ts = <<>> THEN None
    ELSE IF lower(Head(ts)) \in Keys(mapping)
         THEN Some(lower(Head(ts)))
         ELSE pick_in_input_order(mapping, Tail(ts))

parse_tags_in_input_order(ts) ==
    [dialect |-> pick_in_input_order(DIALECT_TAGS, ts),
     case |-> pick_in_input_order(CASE_TAGS, ts),
     number |-> pick_in_input_order(NUMBER_TAGS, ts),
     gender |-> pick_in_input_order(GENDER_TAGS, ts),
     person |-> pick_in_input_order(PERSON_TAGS, ts),
     tense |-> pick_in_input_order(TENSE_TAGS, ts),
     mood |-> pick_in_input_order(MOOD_TAGS, ts),
     voice |-> pick_in_input_order(VOICE_TAGS, ts),
     degree |-> pick_in_input_order(DEGREE_TAGS, ts),
     verb_form_type |-> pick_in_input_order(VERB_FORM_TAGS, ts)]

parse_tags(ts) ==
    LET tags_lc == {lower(ts[i]) : i \in DOMAIN ts}
    IN  [dialect |-> pick(DIALECT_TAGS, tags_lc),
         case |-> pick(CASE_TAGS, tags_lc),
         number |-> pick(NUMBER_TAGS, tags_lc),
         gender |-> pick(GENDER_TAGS, tags_lc),
         person |-> pick(PERSON_TAGS, tags_lc),
         tense |-> pick(TENSE_TAGS, tags_lc),
         mood |-> pick(MOOD_TAGS, tags_lc),
         voice |-> pick(VOICE_TAGS, tags_lc),
         degree |-> pick(DEGREE_TAGS, tags_lc),
         verb_form_type |-> pick(VERB_FORM_TAGS, tags_lc)]

(***************************************************************************)
(* should_keep_form: the form admission filter.                            *)
(***************************************************************************)
should_keep_form_case_sensitive(form_entry) ==
    LET ts == {form_entry.tags[i] : i \in DOMAIN form_entry.tags}
    IN  IF form_entry.form = None \/ form_entry.form = Some("") THEN FALSE
        ELSE IF form_entry.form = Some("-") THEN FALSE
        ELSE IF form_entry.tags = <<>> THEN FALSE
        ELSE IF "romanization" \in ts THEN FALSE
        ELSE IF "inflection-template" \in ts \/ "table-tags" \in ts \/ "class" \in ts
             THEN FALSE
        ELSE TRUE

should_keep_form(form_entry) ==
    LET ts == [i \in DOMAIN form_entry.tags |-> lower(form_entry.tags[i])]
        in_tags(t) == \E i \in DOMAIN ts : ts[i] = t
    IN  IF form_entry.form = None \/ form_entry.form = Some("") THEN FALSE
        ELSE IF form_entry.form = Some("-") THEN FALSE
        ELSE IF ts = <<>> THEN FALSE
        ELSE IF in_tags("romanization") THEN FALSE
        ELSE IF in_tags("inflection-template") \/ in_tags("table-tags") \/ in_tags("class")
             THEN FALSE
        ELSE TRUE

(***************************************************************************)
(* The input: a line is blank, malformed JSON, or an entry (a JSON object) *)
(* with the fields import_jsonl reads.  extra lists the entry's keys that  *)
(* are not in ENTRY_EXTRA_KEYS; a sense is its list of glosses.            *)
(***************************************************************************)
Line(kind, lang_code, pos, word, etymology_text, etymology_number, related, senses, forms) ==
    [kind |-> kind, lang_code |-> lang_code, pos |-> pos, word |-> word,
     etymology_text |-> etymology_text, etymology_templates |-> None,
     etymology_number |-> etymology_number, inflection_templates |-> Some(<<>>),
     related |-> related, synonyms |-> None, antonyms |-> None, categories |-> None,
     extra |-> IF kind = "entry" /\ word # None THEN <<"head_templates">> ELSE <<>>,
     senses |-> senses, forms |-> forms]

Form(form, ts) == [form |-> form, tags |-> ts]

BlankLine == Line("blank", None, None, None, None, None, None, <<>>, <<>>)
BadJsonLine == Line("badjson", None, None, None, None, None, None, <<>>, <<>>)
\* wrong language, and no pos and no word either
EnglishLine == Line("entry", Some("en"), None, None, Some("e0"), None, None, <<>>, <<>>)
\* pos is white space only, and no word either
NoPosLine == Line("entry", Some("grc"), Some(" "), None, None, None, None, <<>>, <<>>)
\* pos is an alias of an allowed code, and no word either
AliasPosLine == Line("entry", Some("grc"), Some("adjective"), None, None, None, None,
                     << <<"beautiful">> >>, <<>>)
\* an allowed pos and an empty word
NoWordLine == Line("entry", Some("grc"), Some(" verb "), Some(""), Some("e0"), None, None,
                   << <<"say">> >>, <<Form(Some("legei"), <<"doric", "present">>)>>)
LogosLine == Line("entry", Some("grc"), Some("noun"), Some("logos"), Some("e1"), Some(1),
                  Some(<<"lego">>), << <<"word", "speech">> >>,
                  <<Form(Some("logou"), <<"genitive", "singular">>)>>)
LogosAgainLine == Line("entry", Some("grc"), Some("noun"), Some("logos"), Some("e2"), None,
                       None, <<>>, <<>>)
CapitalLogosLine == Line("entry", Some("grc"), Some("noun"), Some("Logos"), None, None,
                         Some(<<>>), << <<>> >>,
                         <<Form(Some("Logoi"), <<"plural", "Attic", "singular">>),
                           Form(Some("logo"), <<"ionic", "romanization">>)>>)

Lines == {BlankLine, BadJsonLine, EnglishLine, NoPosLine, AliasPosLine, NoWordLine,
          LogosLine, LogosAgainLine, CapitalLogosLine}

RECURSIVE SeqsUpTo(_, _)
SeqsUpTo(S, n) ==
    IF n = 0 THEN {<<>>}
    ELSE LET shorter == SeqsUpTo(S, n - 1)
         IN  shorter \cup {Append(s, x) : s \in shorter, x \in S}

Streams == SeqsUpTo(Lines, MaxLines)

\* One accepted entry, of a POS whose code has aliases, with one form entry: every
\* form text with every short tag list.
FormTexts == {None, Some(""), Some("-"), Some("logou")}
FormTagTokens == {"genitive", "Attic", "romanization", "Romanization",
                  "inflection-template", "table-tags", "class"}
FormEntries == {Form(f, t) : f \in FormTexts, t \in SeqsUpTo(FormTagTokens, MaxFormTags)}
FormStreams ==
    {<<Line("entry", Some("grc"), Some("adj"), Some("logos"), None, None, None, <<>>,
            <<fe>>)>> : fe \in FormEntries}

\* The --pos argument after split(","), as main passes it to parse_pos_list.
PosArgs == {<<"noun", "verb", "adjective">>, <<"Noun", " Verb ", "ADJ", "">>}

RECURSIVE parse_pos_list(_)
parse_pos_list(pos_list) ==
    IF pos_list = <<>> THEN {}
    ELSE LET raw == lower(strip(Head(pos_list)))
             mapped == IF raw \in DOMAIN POS_ALIASES THEN POS_ALIASES[raw] ELSE raw
         IN  IF raw = "" THEN parse_pos_list(Tail(pos_list))
             ELSE {mapped} \cup parse_pos_list(Tail(pos_list))

(***************************************************************************)
(* The Schema Manager.  A store is its tables' columns (name and           *)
(* declaration, in order), its tables' rows (column name to value) and its *)
(* indexes.                                                                *)
(***************************************************************************)
Col(name, decl) == [name |-> name, decl |-> decl]

LEMMA_EXTRA_COLUMNS ==
    <<Col("etymology_text", "TEXT"), Col("etymology_templates", "TEXT"),
      Col("etymology_number", "INTEGER"), Col("inflection_templates", "TEXT"),
      Col("related", "TEXT"), Col("synonyms", "TEXT"), Col("antonyms", "TEXT"),
      Col("categories", "TEXT"), Col("entry_extra", "TEXT")>>

SENSE_EXTRA_COLUMNS ==
    <<Col("tags", "TEXT"), Col("form_of", "TEXT"), Col("alt_of", "TEXT"),
      Col("qualifier", "TEXT"), Col("categories", "TEXT"), Col("raw_glosses", "TEXT"),
      Col("raw_tags", "TEXT"), Col("links", "TEXT"), Col("topics", "TEXT"),
      Col("examples", "TEXT"), Col("sense_extra", "TEXT")>>

FORM_EXTRA_COLUMNS == <<Col("source", "TEXT")>>

\* the columns of each CREATE TABLE of SCHEMA_SQL
SCHEMA_SQL ==
    [lemma |->
        <<Col("id", "INTEGER PRIMARY KEY"), Col("headword", "TEXT NOT NULL"),
          Col("headword_norm", "TEXT NOT NULL"), Col("sort_key", "TEXT"),
          Col("notes", "TEXT"), Col("etymology_text", "TEXT"),
          Col("etymology_templates", "TEXT"), Col("etymology_number", "INTEGER"),
          Col("inflection_templates", "TEXT"), Col("related", "TEXT"),
          Col("synonyms", "TEXT"), Col("antonyms", "TEXT"), Col("categories", "TEXT"),
          Col("entry_extra", "TEXT")>>,
     pos |-> <<Col("id", "INTEGER PRIMARY KEY"), Col("code", "TEXT NOT NULL UNIQUE")>>,
     lemma_pos |->
        <<Col("lemma_id", "INTEGER NOT NULL"), Col("pos_id", "INTEGER NOT NULL"),
          Col("is_primary", "INTEGER NOT NULL DEFAULT 0")>>,
     sense |->
        <<Col("id", "INTEGER PRIMARY KEY"), Col("lemma_id", "INTEGER NOT NULL"),
          Col("pos_id", "INTEGER"), Col("gloss", "TEXT NOT NULL"),
          Col("definition", "TEXT"), Col("sense_order", "INTEGER NOT NULL DEFAULT 0"),
          Col("tags", "TEXT"), Col("form_of", "TEXT"), Col("alt_of", "TEXT"),
          Col("qualifier", "TEXT"), Col("categories", "TEXT"), Col("raw_glosses", "TEXT"),
          Col("raw_tags", "TEXT"), Col("links", "TEXT"), Col("topics", "TEXT"),
          Col("examples", "TEXT"), Col("sense_extra", "TEXT")>>,
     dialect |-> <<Col("id", "INTEGER PRIMARY KEY"), Col("code", "TEXT NOT NULL UNIQUE")>>,
     form |->
        <<Col("id", "INTEGER PRIMARY KEY"), Col("lemma_id", "INTEGER NOT NULL"),
          Col("pos_id", "INTEGER NOT NULL"), Col("form", "TEXT NOT NULL"),
          Col("form_norm", "TEXT NOT NULL"), Col("dialect_id", "INTEGER"),
          Col("tense", "TEXT"), Col("mood", "TEXT"), Col("voice", "TEXT"),
          Col("person", "TEXT"), Col("number", "TEXT"), Col("grammatical_case", "TEXT"),
          Col("gender", "TEXT"), Col("degree", "TEXT"), Col("verb_form_type", "TEXT"),
          Col("is_principal_part", "INTEGER NOT NULL DEFAULT 0"),
          Col("pronoun_type", "TEXT"), Col("governs_case", "TEXT"), Col("tags", "TEXT"),
          Col("source", "TEXT")>>]

\* the CREATE INDEX statements of SCHEMA_SQL
SCHEMA_INDEXES ==
    {"idx_lemma_headword_norm", "idx_form_form_norm", "idx_form_lemma_pos",
     "idx_form_features_verb", "idx_form_features_nominal"}

NoStore == [columns |-> <<>>, rows |-> <<>>, indexes |-> {}]

ColumnNames(cols) == {cols[i].name : i \in DOMAIN cols}

\* conn.executescript(SCHEMA_SQL): CREATE TABLE / CREATE INDEX ... IF NOT EXISTS
executescript(store) ==
    LET tables == DOMAIN store.columns \cup DOMAIN SCHEMA_SQL
    IN  [columns |-> [t \in tables |-> IF t \in DOMAIN store.columns
                                       THEN store.columns[t] ELSE SCHEMA_SQL[t]],
         rows |-> [t \in tables |-> IF t \in DOMAIN store.columns
                                    THEN store.rows[t] ELSE <<>>],
         indexes |-> store.indexes \cup SCHEMA_INDEXES]

\* ALTER TABLE ... ADD COLUMN: the column goes last and is NULL in every row
add_columns(store, table, added) ==
    [store EXCEPT
        !.columns[table] = @ \o added,
        !.rows[table] = [i \in DOMAIN @ |-> @[i] @@ [n \in ColumnNames(added) |-> None]]]

\* ensure_columns without the test for the column's presence
ensure_columns_unconditional(store, table, columns) == add_columns(store, table, columns)

ensure_columns(store, table, columns) ==
    LET existing == ColumnNames(store.columns[table])
        missing(c) == c.name \notin existing
    IN  add_columns(store, table, SelectSeq(columns, missing))

ensure_schema_columns(store) ==
    ensure_columns(ensure_columns(ensure_columns(store, "lemma", LEMMA_EXTRA_COLUMNS),
                                  "sense", SENSE_EXTRA_COLUMNS),
                   "form", FORM_EXTRA_COLUMNS)

create_db_if_missing(store) == ensure_schema_columns(executescript(store))

(***************************************************************************)
(* The stores the Schema Manager is run on: none yet, or one that an       *)
(* earlier schema left behind.  Each table is absent or present; a present *)
(* table has the columns SCHEMA_SQL gives it except some of the optional   *)
(* ones (none, one or all of them), perhaps a column of its own after      *)
(* them, and perhaps rows.                                                 *)
(***************************************************************************)
ExtraColumns ==
    [lemma |-> LEMMA_EXTRA_COLUMNS, pos |-> <<>>, lemma_pos |-> <<>>,
     sense |-> SENSE_EXTRA_COLUMNS, dialect |-> <<>>, form |-> FORM_EXTRA_COLUMNS]

MissingSets(table) ==
    LET names == ColumnNames(ExtraColumns[table])
    IN  {{}} \cup {{n} : n \in names} \cup {names}

OwnColumn == Col("legacy_note", "TEXT")

OldColumns(table, lacking, own) ==
    LET kept(c) == c.name \notin lacking
    IN  SelectSeq(SCHEMA_SQL[table], kept) \o (IF own THEN <<OwnColumn>> ELSE <<>>)

OldRow(cols) == [n \in ColumnNames(cols) |-> Some(n)]

\* either all of the tables that have no optional column, or none of them
PlainTables == {"pos", "lemma_pos", "dialect"}
TableSets == {T \cup P : T \in SUBSET {"lemma", "sense", "form"}, P \in {{}, PlainTables}}

OldStore(tables, lacking, own, filled) ==
    [columns |-> [t \in tables |-> OldColumns(t, lacking[t], own)],
     rows |-> [t \in tables |->
                  IF filled THEN <<OldRow(OldColumns(t, lacking[t], own))>> ELSE <<>>],
     indexes |-> IF {"lemma", "form"} \subseteq tables THEN SCHEMA_INDEXES ELSE {}]

OldStores ==
    {OldStore(T, [t \in T |-> IF t \in DOMAIN l THEN l[t] ELSE {}], own, filled) :
        T \in TableSets,
        l \in [lemma : MissingSets("lemma"), sense : MissingSets("sense"),
               form : MissingSets("form")],
        own \in BOOLEAN, filled \in BOOLEAN}

(***************************************************************************)
(* The store and the entity resolver.                                      *)
(***************************************************************************)
EmptyMap == [k \in {} |-> 0]

EmptyStore == [lemma |-> <<>>, pos |-> <<>>, dialect |-> <<>>, lemma_pos |-> {},
               sense |-> <<>>, form |-> <<>>]

MetaFields == {"etymology_text", "etymology_templates", "etymology_number",
               "inflection_templates", "related", "synonyms", "antonyms", "categories",
               "entry_extra"}

Min(S) == CHOOSE x \in S : \A y \in S : x <= y

\* Each ensure_* returns the identifier with the table and the cache as it leaves them.
ensure_pos(table, code, cache) ==
    IF code \in DOMAIN cache THEN [id |-> cache[code], table |-> table, cache |-> cache]
    ELSE LET rows == {i \in DOMAIN table : table[i].code = code}
         IN  IF rows # {}
             THEN [id |-> Min(rows), table |-> table, cache |-> cache @@ (code :> Min(rows))]
             ELSE [id |-> Len(table) + 1, table |-> Append(table, [code |-> code]),
                   cache |-> cache @@ (code :> Len(table) + 1)]

ensure_dialect_no_lookup(table, code, cache) ==
    IF code \in DOMAIN cache THEN [id |-> cache[code], table |-> table, cache |-> cache]
    ELSE [id |-> Len(table) + 1, table |-> Append(table, [code |-> code]),
          cache |-> cache @@ (code :> Len(table) + 1)]

ensure_dialect(table, code, cache) ==
    IF code \in DOMAIN cache THEN [id |-> cache[code], table |-> table, cache |-> cache]
    ELSE LET rows == {i \in DOMAIN table : table[i].code = code}
         IN  IF rows # {}
             THEN [id |-> Min(rows), table |-> table, cache |-> cache @@ (code :> Min(rows))]
             ELSE [id |-> Len(table) + 1, table |-> Append(table, [code |-> code]),
                   cache |-> cache @@ (code :> Len(table) + 1)]

NewLemma(headword, headword_norm) ==
    [headword |-> headword, headword_norm |-> headword_norm,
     meta |-> [f \in MetaFields |-> None]]

\* ensure_lemma looking the headword up by its normalized form alone
ensure_lemma_by_norm(table, headword, cache) ==
    LET headword_norm == normalize(headword)
        key == <<headword, headword_norm>>
    IN  IF key \in DOMAIN cache THEN [id |-> cache[key], table |-> table, cache |-> cache]
        ELSE LET rows == {i \in DOMAIN table : table[i].headword_norm = headword_norm}
             IN  IF rows # {}
                 THEN [id |-> Min(rows), table |-> table,
                       cache |-> cache @@ (key :> Min(rows))]
                 ELSE [id |-> Len(table) + 1,
                       table |-> Append(table, NewLemma(headword, headword_norm)),
                       cache |-> cache @@ (key :> Len(table) + 1)]

ensure_lemma(table, headword, cache) ==
    LET headword_norm == normalize(headword)
        key == <<headword, headword_norm>>
    IN  IF key \in DOMAIN cache THEN [id |-> cache[key], table |-> table, cache |-> cache]
        ELSE LET rows == {i \in DOMAIN table : /\ table[i].headword = headword
                                               /\ table[i].headword_norm = headword_norm}
             IN  IF rows # {}
                 THEN [id |-> Min(rows), table |-> table,
                       cache |-> cache @@ (key :> Min(rows))]
                 ELSE [id |-> Len(table) + 1,
                       table |-> Append(table, NewLemma(headword, headword_norm)),
                       cache |-> cache @@ (key :> Len(table) + 1)]

(***************************************************************************)
(* The record extractor and the lemma metadata update.                     *)
(***************************************************************************)
RECURSIVE JoinWith(_, _)
JoinWith(sep, s) ==
    IF s = <<>> THEN ""
    ELSE IF Len(s) = 1 THEN s[1]
    ELSE s[1] \o sep \o JoinWith(sep, Tail(s))

extract_gloss(sense) ==
    IF sense = <<>> THEN [gloss |-> "?", definition |-> None]
    ELSE [gloss |-> sense[1],
          definition |-> IF Len(sense) > 1 THEN Some(JoinWith("; ", Tail(sense))) ELSE None]

extract_entry_metadata(entry) ==
    [etymology_text |-> entry.etymology_text,
     etymology_templates |-> dumps_or_none(entry.etymology_templates),
     etymology_number |-> entry.etymology_number,
     inflection_templates |-> dumps_or_none(entry.inflection_templates),
     related |-> dumps_or_none(entry.related),
     synonyms |-> dumps_or_none(entry.synonyms),
     antonyms |-> dumps_or_none(entry.antonyms),
     categories |-> dumps_or_none(entry.categories),
     entry_extra |-> dumps_or_none(Some(entry.extra))]

\* SQL COALESCE(a, b): the first argument that is not NULL
COALESCE_second_first(a, b) == IF b # None THEN b ELSE a

COALESCE(a, b) == IF a # None THEN a ELSE b

update_lemma_metadata(table, lemma_id, metadata) ==
    IF \A f \in MetaFields : metadata[f] = None THEN table
    ELSE [table EXCEPT ![lemma_id].meta =
              [f \in MetaFields |-> COALESCE(metadata[f], @[f])]]

(***************************************************************************)
(* The import driver: the filter stages of one line, in the code's order.  *)
(***************************************************************************)
SkipReasons == {"json_decode_error", "non_grc", "missing_pos", "pos_not_allowed",
                "missing_headword"}

\* the entry's pos passed through POS_ALIASES as the allow-list's items are
pos_code_of_alias_normalized(entry) ==
    LET raw == strip(IF entry.pos = None THEN "" ELSE Val(entry.pos))
    IN  IF raw \in DOMAIN POS_ALIASES THEN POS_ALIASES[raw] ELSE raw

pos_code_of(entry) == strip(IF entry.pos = None THEN "" ELSE Val(entry.pos))

\* the stages with the POS presence test ahead of the language filter
line_outcome_pos_first(line, allowed) ==
    IF line.kind = "blank" THEN "blank"
    ELSE IF line.kind = "badjson" THEN "json_decode_error"
    ELSE IF pos_code_of(line) = "" THEN "missing_pos"
    ELSE IF line.lang_code # Some("grc") THEN "non_grc"
    ELSE IF pos_code_of(line) \notin allowed THEN "pos_not_allowed"
    ELSE IF line.word = None \/ line.word = Some("") THEN "missing_headword"
    ELSE "accepted"

line_outcome(line, allowed) ==
    IF line.kind = "blank" THEN "blank"
    ELSE IF line.kind = "badjson" THEN "json_decode_error"
    ELSE IF line.lang_code # Some("grc") THEN "non_grc"
    ELSE IF pos_code_of(line) = "" THEN "missing_pos"
    ELSE IF pos_code_of(line) \notin allowed THEN "pos_not_allowed"
    ELSE IF line.word = None \/ line.word = Some("") THEN "missing_headword"
    ELSE "accepted"

Bump(counts, key) ==
    IF key \in DOMAIN counts THEN [counts EXCEPT ![key] = @ + 1] ELSE counts @@ (key :> 1)

RowCounts(store) ==
    [lemma |-> Len(store.lemma), pos |-> Len(store.pos), dialect |-> Len(store.dialect),
     lemma_pos |-> Cardinality(store.lemma_pos), sense |-> Len(store.sense),
     form |-> Len(store.form)]

NoEntry == [pos_id |-> 0, lemma_id |-> 0, idx |-> 0, fidx |-> 0]

\* the line the loop is at, when there is one
HasLine == line_no < Len(input)
entry == input[line_no + 1]

\* skipped_reasons[reason] += 1, with the headword counter forgotten
count_skip_forgetting_headword(reasons, reason) ==
    IF reason = "missing_headword" THEN reasons ELSE [reasons EXCEPT ![reason] = @ + 1]

count_skip(reasons, reason) == [reasons EXCEPT ![reason] = @ + 1]

\* conn.commit() when inserted reaches a multiple of commit_every
commit_due_never(n, commit_every) == FALSE

commit_due(n, commit_every) == n % commit_every = 0

\* inserted += 1
tally_accepted(n) == n + 1

(***************************************************************************)
(* The state after create_db_if_missing on a new store, before any run.    *)
(***************************************************************************)
InitDriver ==
    /\ allowed_pos \in {parse_pos_list(a) : a \in PosArgs}
    /\ run = 0
    /\ pc = "idle"
    /\ line_no = 0
    /\ db = EmptyStore
    /\ tx = EmptyStore
    /\ pos_cache = EmptyMap
    /\ dialect_cache = EmptyMap
    /\ lemma_cache = EmptyMap
    /\ inserted = 0
    /\ skipped_reasons = [r \in SkipReasons |-> 0]
    /\ skipped_pos_counts = EmptyMap
    /\ cur = NoEntry
    /\ last_commit = 0
    /\ summary = <<>>

TagsIdle ==
    /\ tags = <<>>
    /\ parsed = None
    /\ prev_tags = <<>>
    /\ prev_parsed = None
    /\ tpc = "off"

SchemaIdle ==
    /\ schema_db = NoStore
    /\ schema_db_before = NoStore
    /\ schema_runs = 0

Init ==
    /\ input \in Streams \cup FormStreams
    /\ InitDriver
    /\ TagsIdle
    /\ SchemaIdle

\* main: a new connection, and import_jsonl up to the head of its loop
StartRun ==
    /\ pc \in {"idle", "done", "aborted"}
    /\ run < MaxRuns
    /\ run' = run + 1
    /\ pc' = "read"
    /\ line_no' = 0
    /\ tx' = db
    /\ pos_cache' = EmptyMap
    /\ dialect_cache' = EmptyMap
    /\ lemma_cache' = EmptyMap
    /\ inserted' = 0
    /\ skipped_reasons' = [r \in SkipReasons |-> 0]
    /\ skipped_pos_counts' = EmptyMap
    /\ cur' = NoEntry
    /\ last_commit' = 0
    /\ UNCHANGED <<input, allowed_pos, db, summary, tag_vars, schema_vars>>

\* a line that is empty after strip()
ReadBlankLine ==
    /\ pc = "read"
    /\ HasLine
    /\ line_outcome(entry, allowed_pos) = "blank"
    /\ line_no' = line_no + 1
    /\ UNCHANGED <<input, allowed_pos, run, pc, db, tx, pos_cache, dialect_cache,
                   lemma_cache, inserted, skipped_reasons, skipped_pos_counts, cur,
                   last_commit, summary, tag_vars, schema_vars>>

\* the skip of a line, with the POS resolved ahead of the headword check
SkipLine_pos_before_headword ==
    /\ pc = "read"
    /\ HasLine
    /\ LET reason == line_outcome(entry, allowed_pos)
           p == ensure_pos(tx.pos, pos_code_of(entry), pos_cache)
       IN  /\ reason \in SkipReasons
           /\ skipped_reasons' = count_skip(skipped_reasons, reason)
           /\ skipped_pos_counts' =
                  IF reason = "pos_not_allowed"
                  THEN Bump(skipped_pos_counts, pos_code_of(entry))
                  ELSE skipped_pos_counts
           /\ IF reason = "missing_headword"
              THEN tx' = [tx EXCEPT !.pos = p.table] /\ pos_cache' = p.cache
              ELSE UNCHANGED <<tx, pos_cache>>
    /\ line_no' = line_no + 1
    /\ UNCHANGED <<input, allowed_pos, run, pc, db, dialect_cache, lemma_cache, inserted,
                   cur, last_commit, summary, tag_vars, schema_vars>>

\* a line that fails a stage: its counter, and on to the next line
SkipLine ==
    /\ pc = "read"
    /\ HasLine
    /\ LET reason == line_outcome(entry, allowed_pos)
       IN  /\ reason \in SkipReasons
           /\ skipped_reasons' = count_skip(skipped_reasons, reason)
           /\ skipped_pos_counts' =
                  IF reason = "pos_not_allowed"
                  THEN Bump(skipped_pos_counts, pos_code_of(entry))
                  ELSE skipped_pos_counts
    /\ line_no' = line_no + 1
    /\ UNCHANGED <<input, allowed_pos, run, pc, db, tx, pos_cache, dialect_cache,
                   lemma_cache, inserted, cur, last_commit, summary, tag_vars,
                   schema_vars>>

\* an accepted entry: metadata, ensure_pos, ensure_lemma, update_lemma_metadata, lemma_pos
BeginEntry ==
    /\ pc = "read"
    /\ HasLine
    /\ line_outcome(entry, allowed_pos) = "accepted"
    /\ LET entry_metadata == extract_entry_metadata(entry)
           p == ensure_pos(tx.pos, pos_code_of(entry), pos_cache)
           l == ensure_lemma(tx.lemma, Val(entry.word), lemma_cache)
       IN  /\ pos_cache' = p.cache
           /\ lemma_cache' = l.cache
           /\ tx' = [tx EXCEPT !.pos = p.table,
                               !.lemma = update_lemma_metadata(l.table, l.id, entry_metadata),
                               !.lemma_pos = @ \cup {<<l.id, p.id>>}]
           /\ cur' = [pos_id |-> p.id, lemma_id |-> l.id, idx |-> 0, fidx |-> 0]
    /\ pc' = "entry"
    /\ UNCHANGED <<input, allowed_pos, run, line_no, db, dialect_cache, inserted,
                   skipped_reasons, skipped_pos_counts, last_commit, summary, tag_vars,
                   schema_vars>>

\* the sense loop with a commit after each row
InsertSense_committing ==
    /\ pc = "entry"
    /\ cur.idx < Len(entry.senses)
    /\ LET g == extract_gloss(entry.senses[cur.idx + 1])
       IN  tx' = [tx EXCEPT !.sense =
                      Append(@, [lemma_id |-> cur.lemma_id, pos_id |-> cur.pos_id,
                                 gloss |-> g.gloss, definition |-> g.definition,
                                 sense_order |-> cur.idx])]
    /\ db' = tx'
    /\ cur' = [cur EXCEPT !.idx = @ + 1]
    /\ UNCHANGED <<input, allowed_pos, run, pc, line_no, pos_cache, dialect_cache,
                   lemma_cache, inserted, skipped_reasons, skipped_pos_counts,
                   last_commit, summary, tag_vars, schema_vars>>

\* one turn of the loop over the entry's senses
InsertSense ==
    /\ pc = "entry"
    /\ cur.idx < Len(entry.senses)
    /\ LET g == extract_gloss(entry.senses[cur.idx + 1])
       IN  tx' = [tx EXCEPT !.sense =
                      Append(@, [lemma_id |-> cur.lemma_id, pos_id |-> cur.pos_id,
                                 gloss |-> g.gloss, definition |-> g.definition,
                                 sense_order |-> cur.idx])]
    /\ cur' = [cur EXCEPT !.idx = @ + 1]
    /\ UNCHANGED <<input, allowed_pos, run, pc, line_no, db, pos_cache, dialect_cache,
                   lemma_cache, inserted, skipped_reasons, skipped_pos_counts,
                   last_commit, summary, tag_vars, schema_vars>>

\* the form loop with the dialect resolved ahead of the admission filter
ProcessForm_dialect_first ==
    /\ pc = "entry"
    /\ cur.idx = Len(entry.senses)
    /\ cur.fidx < Len(entry.forms)
    /\ LET form_entry == entry.forms[cur.fidx + 1]
           form_text == Val(form_entry.form)
           features == parse_tags(form_entry.tags)
           d == IF features.dialect # None
                THEN ensure_dialect(tx.dialect, Val(features.dialect), dialect_cache)
                ELSE [id |-> 0, table |-> tx.dialect, cache |-> dialect_cache]
       IN  /\ dialect_cache' = d.cache
           /\ IF ~should_keep_form(form_entry)
              THEN tx' = [tx EXCEPT !.dialect = d.table]
              ELSE tx' = [tx EXCEPT
                       !.dialect = d.table,
                       !.form = Append(@,
                           [lemma_id |-> cur.lemma_id, pos_id |-> cur.pos_id,
                            form |-> form_text, form_norm |-> normalize(form_text),
                            dialect_id |-> IF features.dialect # None THEN Some(d.id)
                                           ELSE None,
                            tense |-> features.tense, mood |-> features.mood,
                            voice |-> features.voice, person |-> features.person,
                            number |-> features.number,
                            grammatical_case |-> features.case,
                            gender |-> features.gender, degree |-> features.degree,
                            verb_form_type |-> features.verb_form_type,
                            tags |-> form_entry.tags])]
    /\ cur' = [cur EXCEPT !.fidx = @ + 1]
    /\ UNCHANGED <<input, allowed_pos, run, pc, line_no, db, pos_cache, lemma_cache,
                   inserted, skipped_reasons, skipped_pos_counts, last_commit, summary,
                   tag_vars, schema_vars>>

\* one turn of the loop over the entry's forms
ProcessForm ==
    /\ pc = "entry"
    /\ cur.idx = Len(entry.senses)
    /\ cur.fidx < Len(entry.forms)
    /\ LET form_entry == entry.forms[cur.fidx + 1]
           form_text == Val(form_entry.form)
           features == parse_tags(form_entry.tags)
           d == IF features.dialect # None
                THEN ensure_dialect(tx.dialect, Val(features.dialect), dialect_cache)
                ELSE [id |-> 0, table |-> tx.dialect, cache |-> dialect_cache]
       IN  IF ~should_keep_form(form_entry)
           THEN UNCHANGED <<tx, dialect_cache>>
           ELSE /\ dialect_cache' = d.cache
                /\ tx' = [tx EXCEPT
                       !.dialect = d.table,
                       !.form = Append(@,
                           [lemma_id |-> cur.lemma_id, pos_id |-> cur.pos_id,
                            form |-> form_text, form_norm |-> normalize(form_text),
                            dialect_id |-> IF features.dialect # None THEN Some(d.id)
                                           ELSE None,
                            tense |-> features.tense, mood |-> features.mood,
                            voice |-> features.voice, person |-> features.person,
                            number |-> features.number,
                            grammatical_case |-> features.case,
                            gender |-> features.gender, degree |-> features.degree,
                            verb_form_type |-> features.verb_form_type,
                            tags |-> form_entry.tags])]
    /\ cur' = [cur EXCEPT !.fidx = @ + 1]
    /\ UNCHANGED <<input, allowed_pos, run, pc, line_no, db, pos_cache, lemma_cache,
                   inserted, skipped_reasons, skipped_pos_counts, last_commit, summary,
                   tag_vars, schema_vars>>

\* inserted += 1, and the commit of a full batch
FinishEntry ==
    /\ pc = "entry"
    /\ cur.idx = Len(entry.senses)
    /\ cur.fidx = Len(entry.forms)
    /\ inserted' = tally_accepted(inserted)
    /\ IF commit_due(inserted', CommitEvery)
       THEN db' = tx /\ last_commit' = inserted'
       ELSE UNCHANGED <<db, last_commit>>
    /\ line_no' = line_no + 1
    /\ pc' = "read"
    /\ cur' = NoEntry
    /\ UNCHANGED <<input, allowed_pos, run, tx, pos_cache, dialect_cache, lemma_cache,
                   skipped_reasons, skipped_pos_counts, summary, tag_vars,
                   schema_vars>>

\* the end of the stream: the last commit and the skip report
EndOfStream ==
    /\ pc = "read"
    /\ ~HasLine
    /\ db' = tx
    /\ last_commit' = inserted
    /\ pc' = "done"
    /\ summary' = Append(summary, [run |-> run, rows |-> RowCounts(tx),
                                   inserted |-> inserted,
                                   skipped_reasons |-> skipped_reasons])
    /\ UNCHANGED <<input, allowed_pos, run, line_no, tx, pos_cache, dialect_cache,
                   lemma_cache, inserted, skipped_reasons, skipped_pos_counts, cur,
                   tag_vars, schema_vars>>

\* a fatal error anywhere in the loop: it propagates out of import_jsonl, main closes
\* the connection, and the open transaction is rolled back
Abort ==
    /\ pc \in {"read", "entry"}
    /\ pc' = "aborted"
    /\ tx' = db
    /\ pos_cache' = EmptyMap
    /\ dialect_cache' = EmptyMap
    /\ lemma_cache' = EmptyMap
    /\ cur' = NoEntry
    /\ UNCHANGED <<input, allowed_pos, run, line_no, db, inserted, skipped_reasons,
                   skipped_pos_counts, last_commit, summary, tag_vars,
                   schema_vars>>

Next ==
    \/ StartRun
    \/ ReadBlankLine
    \/ SkipLine
    \/ BeginEntry
    \/ InsertSense
    \/ ProcessForm
    \/ FinishEntry
    \/ EndOfStream
    \/ Abort

Spec == Init /\ [][Next]_vars

(***************************************************************************)
(* parse_tags on its own: a tag list from a bounded set is classified, and *)
(* then rearranged (or changed) and classified again.                      *)
(***************************************************************************)
Vocabulary == [dialect |-> DIALECT_TAGS, case |-> CASE_TAGS, number |-> NUMBER_TAGS,
               gender |-> GENDER_TAGS, person |-> PERSON_TAGS, tense |-> TENSE_TAGS,
               mood |-> MOOD_TAGS, voice |-> VOICE_TAGS, degree |-> DEGREE_TAGS,
               verb_form_type |-> VERB_FORM_TAGS]

Slots == DOMAIN Vocabulary

TagTokens == {"plural", "singular", "Singular", "middle", "middle-passive", "xyz"}

VocabularyKeys == UNION {Keys(Vocabulary[c]) : c \in Slots}

TagLists == SeqsUpTo(TagTokens, MaxTags) \cup {<<k>> : k \in VocabularyKeys}

InitTags ==
    /\ input = <<>>
    /\ InitDriver
    /\ tags \in TagLists
    /\ parsed = None
    /\ prev_tags = <<>>
    /\ prev_parsed = None
    /\ tpc = "input"
    /\ SchemaIdle

ParseTags ==
    /\ tpc = "input"
    /\ parsed' = Some(parse_tags(tags))
    /\ tpc' = "parsed"
    /\ UNCHANGED <<tags, prev_tags, prev_parsed, driver_vars, schema_vars>>

Reparse(ts) ==
    /\ tpc \in {"parsed", "reparsed"}
    /\ ts # tags
    /\ prev_tags' = tags
    /\ prev_parsed' = parsed
    /\ tags' = ts
    /\ parsed' = Some(parse_tags(ts))
    /\ tpc' = "reparsed"
    /\ UNCHANGED <<driver_vars, schema_vars>>

RemoveAt(s, i) == SubSeq(s, 1, i - 1) \o SubSeq(s, i + 1, Len(s))

SwapTags ==
    \E i, j \in DOMAIN tags : i < j /\ Reparse([tags EXCEPT ![i] = tags[j], ![j] = tags[i]])

RepeatTag == \E i \in DOMAIN tags : Len(tags) < MaxTags /\ Reparse(Append(tags, tags[i]))

DropTag == \E i \in DOMAIN tags : Reparse(RemoveAt(tags, i))

RecaseTag ==
    \E i \in DOMAIN tags : \E t \in TagTokens :
        lower(t) = lower(tags[i]) /\ Reparse([tags EXCEPT ![i] = t])

NextTags ==
    \/ ParseTags
    \/ SwapTags
    \/ RepeatTag
    \/ DropTag
    \/ RecaseTag

SpecTags == InitTags /\ [][NextTags]_vars

TokenSet(ts) == {lower(ts[i]) : i \in DOMAIN ts}

(***************************************************************************)
(* C7: parse_tags gives the same value in every feature slot for two tag   *)
(* lists that hold the same set of tokens compared case-insensitively,     *)
(* whatever the order and the repetitions of the tokens.                   *)
(***************************************************************************)
C7_OrderIndependent ==
    (tpc = "reparsed" /\ TokenSet(prev_tags) = TokenSet(tags)) => parsed = prev_parsed

\* a list was reordered into one that starts with another vocabulary token of the
\* same category, and the slot kept its value
C7_Witness ==
    /\ tpc = "reparsed"
    /\ prev_tags = <<"plural", "Singular", "plural">>
    /\ tags = <<"Singular", "plural", "plural">>
    /\ Val(parsed).number = Some("singular")
    /\ parsed = prev_parsed

(***************************************************************************)
(* C8: for each category, parse_tags yields null when no token of the tag  *)
(* set is in the category's vocabulary, and otherwise the canonical value  *)
(* of the first key, in the table's declared order, that is in the tag     *)
(* set: 'middle-passive' with 'middle' gives voice 'middle', 'plural' with *)
(* 'singular' gives number 'singular', wherever they stand in the list.    *)
(***************************************************************************)
FirstDeclaredKey(mapping, result, tokens) ==
    LET present == {i \in DOMAIN mapping : mapping[i][1] \in tokens}
    IN  IF present = {} THEN result = None
        ELSE \E i \in present :
                /\ \A j \in present : i <= j
                /\ result = Some(mapping[i][2])

C8_FirstDeclaredKeyWins ==
    tpc \in {"parsed", "reparsed"} =>
        /\ \A c \in Slots : FirstDeclaredKey(Vocabulary[c], Val(parsed)[c], TokenSet(tags))
        /\ TokenSet(tags) \cap Keys(VOICE_TAGS) = {"middle-passive", "middle"}
               => Val(parsed).voice = Some("middle")
        /\ TokenSet(tags) \cap Keys(NUMBER_TAGS) = {"plural", "singular"}
               => Val(parsed).number = Some("singular")

\* the later-declared key stands first in the input list, and one slot is null
C8_Witness ==
    /\ tpc = "parsed"
    /\ tags = <<"middle-passive", "middle", "xyz">>
    /\ Val(parsed).voice = Some("middle")
    /\ Val(parsed).number = None

(***************************************************************************)
(* C9: no tag token is a key of more than one of the ten vocabulary        *)
(* tables, so a tag list with a single token fills at most one slot.       *)
(***************************************************************************)
C9_DisjointVocabularies ==
    /\ \A c1, c2 \in Slots :
           c1 # c2 => Keys(Vocabulary[c1]) \cap Keys(Vocabulary[c2]) = {}
    /\ (tpc \in {"parsed", "reparsed"} /\ Cardinality(TokenSet(tags)) = 1)
           => Cardinality({c \in Slots : Val(parsed)[c] # None}) <= 1

\* a token that is part of the name of a key of another table
C9_Witness ==
    /\ tpc = "parsed"
    /\ tags = <<"perfect">>
    /\ Val(parsed).tense = Some("perfect")
    /\ {c \in Slots : Val(parsed)[c] # None} = {"tense"}

(***************************************************************************)
(* The stages of the driver stated one by one, for the claims below.       *)
(***************************************************************************)
Parses(line) == line.kind = "entry"
IsGreek(line) == line.lang_code = Some("grc")
HasPos(line) == line.pos # None /\ strip(Val(line.pos)) # ""
PosAllowed(line) == HasPos(line) /\ strip(Val(line.pos)) \in allowed_pos
HasHeadword(line) == line.word # None /\ line.word # Some("")

StageOrder == <<"json_decode_error", "non_grc", "missing_pos", "pos_not_allowed",
                "missing_headword">>

FailsStage(k, line) ==
    \/ k = 1 /\ ~Parses(line)
    \/ k = 2 /\ ~IsGreek(line)
    \/ k = 3 /\ ~HasPos(line)
    \/ k = 4 /\ ~PosAllowed(line)
    \/ k = 5 /\ ~HasHeadword(line)

FirstFailure(line) ==
    LET failed == {k \in DOMAIN StageOrder : FailsStage(k, line)}
    IN  IF failed = {} THEN "accepted" ELSE StageOrder[Min(failed)]

NonBlank(line) == line.kind # "blank"

\* the non-blank lines among the first n, and the accepted ones among them
NonBlankLines(n) == {i \in 1..n : NonBlank(input[i])}
AcceptedLines(n) == {i \in NonBlankLines(n) : FirstFailure(input[i]) = "accepted"}
FirstAccepted(k) ==
    {i \in AcceptedLines(Len(input)) : Cardinality(AcceptedLines(i)) <= k}

RECURSIVE SumOver(_, _)
SumOver(S, f) ==
    IF S = {} THEN 0
    ELSE LET x == CHOOSE y \in S : TRUE IN f[x] + SumOver(S \ {x}, f)

Blocklist == {"romanization", "inflection-template", "table-tags", "class"}

FormAdmissible(fe) ==
    /\ fe.form # None
    /\ fe.form # Some("")
    /\ fe.form # Some("-")
    /\ fe.tags # <<>>
    /\ \A i \in DOMAIN fe.tags : lower(fe.tags[i]) \notin Blocklist

SensesOf(S) == SumOver(S, [i \in S |-> Len(input[i].senses)])
AdmittedFormsOf(S) ==
    SumOver(S, [i \in S |->
        Cardinality({j \in DOMAIN input[i].forms : FormAdmissible(input[i].forms[j])})])

\* the step that resolves an accepted entry and updates its lemma's metadata
IsBeginEntryStep == pc = "read" /\ pc' = "entry"

(***************************************************************************)
(* C1 as claimed: once a metadata field of a lemma holds a non-null value, *)
(* no later update_lemma_metadata changes it (fill-if-absent).             *)
(***************************************************************************)
C1_FillIfAbsent ==
    [][IsBeginEntryStep =>
          \A i \in DOMAIN tx.lemma : \A f \in MetaFields :
              tx.lemma[i].meta[f] # None => tx'.lemma[i].meta[f] = tx.lemma[i].meta[f]]_vars

(***************************************************************************)
(* C1 as amended: update_lemma_metadata never resets a stored metadata     *)
(* value to null and leaves it unchanged when the line carries null for    *)
(* that field or belongs to another lemma; a non-null value of the line    *)
(* replaces the stored value of its lemma, so the last non-null value      *)
(* supplied for a field is the one stored.                                 *)
(***************************************************************************)
C1_LastNonNullWins ==
    [][IsBeginEntryStep =>
          \A i \in DOMAIN tx.lemma : \A f \in MetaFields :
              LET old == tx.lemma[i].meta[f]
                  new == tx'.lemma[i].meta[f]
                  incoming == extract_entry_metadata(entry)[f]
              IN  /\ old # None => new # None
                  /\ (i # cur'.lemma_id \/ incoming = None) => new = old
                  /\ (i = cur'.lemma_id /\ incoming # None) => new = incoming]_vars

\* the second line of the same lemma brought another etymology and no etymology number
C1_Witness ==
    /\ pc = "entry"
    /\ run = 1
    /\ line_no = 1
    /\ input[1] = LogosLine
    /\ input[2] = LogosAgainLine
    /\ tx.lemma[cur.lemma_id].meta.etymology_text = Some("e2")
    /\ tx.lemma[cur.lemma_id].meta.etymology_number = Some(1)

(***************************************************************************)
(* C2: at every line boundary and at the end of a run, the five skip       *)
(* counters and the accepted count add up to the number of non-blank lines *)
(* read so far; a run that ends has read the whole input.                  *)
(***************************************************************************)
C2_SkipAccounting ==
    pc \in {"read", "done"} =>
        /\ SumOver(SkipReasons, skipped_reasons) + inserted
               = Cardinality(NonBlankLines(line_no))
        /\ pc = "done" => line_no = Len(input)

C2_Witness ==
    /\ pc = "done"
    /\ input = <<BlankLine, NoWordLine, LogosLine>>
    /\ inserted = 1
    /\ skipped_reasons["missing_headword"] = 1

UniqueCodes(table) ==
    \A i, j \in DOMAIN table : table[i].code = table[j].code => i = j

UniqueLemmas(table) ==
    \A i, j \in DOMAIN table :
        (table[i].headword = table[j].headword
            /\ table[i].headword_norm = table[j].headword_norm) => i = j

C4_OneRowPerKey ==
    /\ \A store \in {tx, db} :
           UniqueCodes(store.pos) /\ UniqueCodes(store.dialect) /\ UniqueLemmas(store.lemma)
    /\ \A k \in DOMAIN pos_cache :
           pos_cache[k] \in DOMAIN tx.pos /\ tx.pos[pos_cache[k]].code = k
    /\ \A k \in DOMAIN dialect_cache :
           dialect_cache[k] \in DOMAIN tx.dialect /\ tx.dialect[dialect_cache[k]].code = k
    /\ \A k \in DOMAIN lemma_cache :
           /\ lemma_cache[k] \in DOMAIN tx.lemma
           /\ tx.lemma[lemma_cache[k]].headword = k[1]
           /\ tx.lemma[lemma_cache[k]].headword_norm = k[2]
    /\ pc = "entry" =>
           /\ tx.pos[cur.pos_id].code = strip(Val(entry.pos))
           /\ tx.lemma[cur.lemma_id].headword = Val(entry.word)
           /\ tx.lemma[cur.lemma_id].headword_norm = lower(Val(entry.word))

\* a second run found its keys in the store, and two headwords share a normalized form
C4_Witness ==
    /\ run = 2
    /\ pc = "entry"
    /\ Len(db.lemma) = 2
    /\ Val(entry.word) = "Logos"
    /\ cur.lemma_id = 2
    /\ tx.lemma[1].headword_norm = tx.lemma[2].headword_norm
    /\ Len(tx.lemma) = 2
    /\ Len(tx.pos) = 1

(***************************************************************************)
(* C5: the transaction is committed whenever the accepted count reaches a  *)
(* multiple of commit_every and at the end of the stream: fewer than       *)
(* commit_every finished entries are ever uncommitted, the connection's    *)
(* view extends the committed store, after a fatal error the store is the  *)
(* one of the last commit, and in a first run it holds exactly the senses  *)
(* and forms of the entries accepted up to that commit.                    *)
(***************************************************************************)
IsPrefix(s, t) == Len(s) <= Len(t) /\ SubSeq(t, 1, Len(s)) = s

C5_CommitBatches ==
    /\ inserted - last_commit < CommitEvery
    /\ pc \in {"read", "entry", "aborted"} => last_commit = inserted - (inserted % CommitEvery)
    /\ pc = "done" => last_commit = inserted
    /\ (pc = "read" /\ last_commit = inserted) => tx = db
    /\ pc \in {"done", "aborted"} => tx = db
    /\ IsPrefix(db.sense, tx.sense) /\ IsPrefix(db.form, tx.form)
    /\ IsPrefix(db.pos, tx.pos) /\ IsPrefix(db.dialect, tx.dialect)
    /\ Len(db.lemma) <= Len(tx.lemma) /\ db.lemma_pos \subseteq tx.lemma_pos
    /\ run = 1 =>
           /\ Len(db.sense) = SensesOf(FirstAccepted(last_commit))
           /\ Len(db.form) = AdmittedFormsOf(FirstAccepted(last_commit))

\* a fatal error in the third accepted entry: the batch of the first two is in the store
C5_Witness ==
    /\ pc = "aborted"
    /\ run = 1
    /\ input = <<LogosLine, CapitalLogosLine, LogosLine>>
    /\ inserted = 2
    /\ line_no = 2
    /\ last_commit = CommitEvery
    /\ Len(db.sense) = 2
    /\ Len(db.form) = 2

(***************************************************************************)
(* C6: the counter of a skipped line is the one of the first stage it      *)
(* fails in the order parse, language, POS presence, POS allow-list,       *)
(* headword presence; every line that passes all the stages is accepted,   *)
(* whatever lines were skipped before it, and a run that ends has read the *)
(* whole input.                                                            *)
(***************************************************************************)
C6_FirstFailedStage ==
    pc \in {"read", "done"} =>
        /\ \A r \in SkipReasons :
               skipped_reasons[r]
                   = Cardinality({i \in NonBlankLines(line_no) : FirstFailure(input[i]) = r})
        /\ inserted = Cardinality(AcceptedLines(line_no))
        /\ pc = "done" => line_no = Len(input)

\* a line of another language without pos or word, a malformed line, then a valid line
C6_Witness ==
    /\ pc = "done"
    /\ input = <<EnglishLine, BadJsonLine, LogosLine>>
    /\ skipped_reasons = [r \in SkipReasons |->
                              IF r \in {"non_grc", "json_decode_error"} THEN 1 ELSE 0]
    /\ inserted = 1
    /\ Len(tx.lemma) = 1

(***************************************************************************)
(* C10: a turn of the form loop adds a Form row exactly when the form      *)
(* entry has a text that is neither empty nor '-', a non-empty tag list    *)
(* and no tag equal, case-insensitively, to 'romanization',                *)
(* 'inflection-template', 'table-tags' or 'class'; a rejected form entry   *)
(* changes nothing in the store, and no other step adds a Form row.        *)
(***************************************************************************)
IsFormStep == pc = "entry" /\ pc' = "entry" /\ cur'.fidx = cur.fidx + 1

C10_FormAdmission ==
    [][/\ IsFormStep =>
              LET fe == entry.forms[cur.fidx + 1]
              IN  IF FormAdmissible(fe)
                  THEN /\ Len(tx'.form) = Len(tx.form) + 1
                       /\ tx'.form[Len(tx'.form)].form = Val(fe.form)
                       /\ tx'.form[Len(tx'.form)].tags = fe.tags
                  ELSE tx' = tx
       /\ Len(tx'.form) > Len(tx.form) => IsFormStep]_vars

\* of the two forms of the entry the first was kept and the second, whose tags
\* hold 'romanization', was not
C10_Witness ==
    /\ pc = "entry"
    /\ entry = CapitalLogosLine
    /\ cur.fidx = 2
    /\ run = 1
    /\ line_no = 0
    /\ Len(tx.form) = 1
    /\ tx.form[1].form = "Logoi"

(***************************************************************************)
(* C11 as claimed: an entry passes the POS filter exactly when its pos,    *)
(* passed through the alias table, is a member of the allow-list; so the   *)
(* lines tallied as pos_not_allowed are those that reach the filter with   *)
(* an alias-normalized pos outside the allow-list.                         *)
(***************************************************************************)
AliasNormalized(code) == IF code \in DOMAIN POS_ALIASES THEN POS_ALIASES[code] ELSE code

\* the lines among the first n that parse, are Greek and have a pos
ReachFilter(n) ==
    {i \in NonBlankLines(n) : Parses(input[i]) /\ IsGreek(input[i]) /\ HasPos(input[i])}

C11_AliasNormalizedPos ==
    pc \in {"read", "done"} =>
        skipped_reasons["pos_not_allowed"] =
            Cardinality({i \in ReachFilter(line_no) :
                            AliasNormalized(strip(Val(input[i].pos))) \notin allowed_pos})

(***************************************************************************)
(* C11: the allow-list is alias-normalized and the entry's pos is not: an  *)
(* entry passes the POS filter exactly when its pos, stripped of white     *)
(* space and otherwise as written, is a member of the allow-list.  The     *)
(* lines tallied as pos_not_allowed, in total and per code, are those that *)
(* reach the filter with such a pos outside the allow-list; an entry being *)
(* persisted has its pos in the allow-list and its POS row carries that    *)
(* pos; every member of the allow-list is a canonical code.                *)
(***************************************************************************)
C11_RawPosAgainstNormalizedList ==
    /\ \A c \in allowed_pos : AliasNormalized(c) = c
    /\ pc \in {"read", "done"} =>
           LET refused == {i \in ReachFilter(line_no) :
                              strip(Val(input[i].pos)) \notin allowed_pos}
           IN  /\ skipped_reasons["pos_not_allowed"] = Cardinality(refused)
               /\ DOMAIN skipped_pos_counts = {strip(Val(input[i].pos)) : i \in refused}
               /\ \A c \in DOMAIN skipped_pos_counts :
                      skipped_pos_counts[c] =
                          Cardinality({i \in refused : strip(Val(input[i].pos)) = c})
    /\ pc = "entry" =>
           /\ strip(Val(entry.pos)) \in allowed_pos
           /\ tx.pos[cur.pos_id].code = strip(Val(entry.pos))

\* the allow-list names the adjective, and an entry whose pos is the alias
\* 'adjective' was refused under that code
C11_Witness ==
    /\ pc = "done"
    /\ "adj" \in allowed_pos
    /\ input = <<AliasPosLine, LogosLine>>
    /\ skipped_reasons["pos_not_allowed"] = 1
    /\ "adjective" \in DOMAIN skipped_pos_counts
    /\ inserted = 1

(***************************************************************************)
(* The Schema Manager on its own: create_db_if_missing is run, and run     *)
(* again, on a store that may hold tables, rows and indexes already.       *)
(***************************************************************************)
InitSchema ==
    /\ input = <<>>
    /\ InitDriver
    /\ TagsIdle
    /\ schema_db \in OldStores \cup {NoStore}
    /\ schema_db_before = schema_db
    /\ schema_runs = 0

CreateDbIfMissing ==
    /\ schema_runs < MaxSchemaRuns
    /\ schema_db_before' = schema_db
    /\ schema_db' = create_db_if_missing(schema_db)
    /\ schema_runs' = schema_runs + 1
    /\ UNCHANGED <<driver_vars, tag_vars>>

NextSchema == CreateDbIfMissing

SpecSchema == InitSchema /\ [][NextSchema]_vars

(***************************************************************************)
(* C12: a run of the Schema Manager keeps every table the store had, with  *)
(* its columns as they were and in their places, followed by exactly the   *)
(* optional columns declared for the table that it lacked, each with its   *)
(* declared type; it keeps every row, with its values as they were and     *)
(* NULL in the added columns; it keeps every index; a table it creates has *)
(* the columns of SCHEMA_SQL and no row.  A second run changes nothing.    *)
(***************************************************************************)
DeclaredFor(table) == {ExtraColumns[table][i] : i \in DOMAIN ExtraColumns[table]}

C12_AdditiveIdempotent ==
    schema_runs >= 1 =>
        LET old == schema_db_before
            new == schema_db
        IN  /\ DOMAIN old.columns \subseteq DOMAIN new.columns
            /\ old.indexes \subseteq new.indexes
            /\ \A t \in DOMAIN old.columns :
                   LET lacked == {c \in DeclaredFor(t) :
                                     c.name \notin ColumnNames(old.columns[t])}
                       tail == SubSeq(new.columns[t], Len(old.columns[t]) + 1,
                                      Len(new.columns[t]))
                   IN  /\ IsPrefix(old.columns[t], new.columns[t])
                       /\ Len(tail) = Cardinality(lacked)
                       /\ {tail[i] : i \in DOMAIN tail} = lacked
                       /\ Len(new.rows[t]) = Len(old.rows[t])
                       /\ \A i \in DOMAIN old.rows[t] :
                              /\ DOMAIN new.rows[t][i] = ColumnNames(new.columns[t])
                              /\ \A n \in DOMAIN old.rows[t][i] :
                                     new.rows[t][i][n] = old.rows[t][i][n]
                              /\ \A c \in lacked : new.rows[t][i][c.name] = None
            /\ \A t \in DOMAIN new.columns \ DOMAIN old.columns :
                   new.columns[t] = SCHEMA_SQL[t] /\ new.rows[t] = <<>>
            /\ schema_runs >= 2 => new = old

\* a store with rows whose lemma table lacked etymology_text and had a column
\* of its own, after the first run
C12_Witness ==
    /\ schema_runs = 1
    /\ "lemma" \in DOMAIN schema_db_before.columns
    /\ "sense" \notin DOMAIN schema_db_before.columns
    /\ "etymology_text" \notin ColumnNames(schema_db_before.columns["lemma"])
    /\ "legacy_note" \in ColumnNames(schema_db_before.columns["lemma"])
    /\ Len(schema_db_before.rows["lemma"]) = 1
    /\ schema_db.columns["lemma"][Len(schema_db.columns["lemma"])]
           = [name |-> "etymology_text", decl |-> "TEXT"]
    /\ schema_db.rows["lemma"][1]["headword"] = Some("headword")
    /\ "sense" \in DOMAIN schema_db.columns

(***************************************************************************)
(* C13: every Dialect row of the committed store, and of the store as the  *)
(* connection sees it between lines, is referred to by a Form row; and     *)
(* every Dialect row's code is the code of a dialect tag of a form entry   *)
(* of an accepted line of the input that passes the admission filter.  A   *)
(* rejected form entry with a dialect tag gives no Dialect row.            *)
(***************************************************************************)
CarriedByForm(rows) ==
    \A d \in DOMAIN rows.dialect :
        \E f \in DOMAIN rows.form : rows.form[f].dialect_id = Some(d)

HasDialectTag(ts, code) ==
    \E k \in DOMAIN ts, e \in DOMAIN DIALECT_TAGS :
        DIALECT_TAGS[e][1] = lower(ts[k]) /\ DIALECT_TAGS[e][2] = code

C13_DialectsFromAdmittedForms ==
    /\ CarriedByForm(db)
    /\ pc \in {"idle", "read", "done", "aborted"} => CarriedByForm(tx)
    /\ \A d \in DOMAIN tx.dialect :
           \E i \in AcceptedLines(Len(input)) :
               \E j \in DOMAIN input[i].forms :
                   /\ FormAdmissible(input[i].forms[j])
                   /\ HasDialectTag(input[i].forms[j].tags, tx.dialect[d].code)

\* the entry's first form, tagged 'Attic', was kept and made the only Dialect row;
\* its second, tagged 'ionic' and 'romanization', was rejected and made none
C13_Witness ==
    /\ pc = "done"
    /\ run = 1
    /\ input = <<CapitalLogosLine>>
    /\ db.dialect = <<[code |-> "attic"]>>
    /\ Len(db.form) = 1
    /\ db.form[1].dialect_id = Some(1)

(***************************************************************************)
(* C14: a step taken from a non-blank line that fails one of the five      *)
(* checks consumes the line and leaves the store as the connection sees    *)
(* it, the committed store, the three caches and the accepted count as     *)
(* they were, unless the step is a fatal error; and every POS row carries  *)
(* the pos of an accepted line of the input, so a line that is skipped     *)
(* gives no POS row.                                                       *)
(***************************************************************************)
IsRejectedLine == pc = "read" /\ HasLine /\ NonBlank(entry) /\ FirstFailure(entry) # "accepted"

C14_SkipChangesOnlyCounters ==
    [][/\ (IsRejectedLine /\ pc' # "aborted") =>
              /\ pc' = "read"
              /\ line_no' = line_no + 1
              /\ tx' = tx
              /\ db' = db
              /\ pos_cache' = pos_cache
              /\ dialect_cache' = dialect_cache
              /\ lemma_cache' = lemma_cache
              /\ inserted' = inserted
              /\ SumOver(SkipReasons, skipped_reasons')
                     = SumOver(SkipReasons, skipped_reasons) + 1
       /\ \A p \in DOMAIN tx'.pos :
              \E i \in AcceptedLines(Len(input)) :
                  strip(Val(input[i].pos)) = tx'.pos[p].code]_vars

\* after an accepted noun, a verb entry without a headword was skipped: the store
\* still holds the one POS row
C14_Witness ==
    /\ pc = "read"
    /\ run = 1
    /\ input = <<LogosLine, NoWordLine>>
    /\ line_no = 2
    /\ inserted = 1
    /\ skipped_reasons["missing_headword"] = 1
    /\ tx.pos = <<[code |-> "noun"]>>
    /\ DOMAIN pos_cache = {"noun"}

(***************************************************************************)
(* C15: the committed store changes only in a step that ends an entry      *)
(* (all its senses and forms done) or ends the stream, and then becomes    *)
(* the store as the connection sees it; in the first run on an empty store *)
(* it then holds, for the accepted lines read so far and no others, the    *)
(* lemma, the POS, their association, every sense in order and every       *)
(* admitted form.  A step inside an entry, and a fatal error, leave the    *)
(* committed store as it was, and a fatal error discards the rest.         *)
(***************************************************************************)
WholeEntries(rows, n) ==
    /\ Len(rows.sense) = SensesOf(AcceptedLines(n))
    /\ Len(rows.form) = AdmittedFormsOf(AcceptedLines(n))
    /\ \A l \in DOMAIN rows.lemma :
           \E i \in AcceptedLines(n) : rows.lemma[l].headword = Val(input[i].word)
    /\ \A i \in AcceptedLines(n) :
           \E l \in DOMAIN rows.lemma, p \in DOMAIN rows.pos :
               /\ rows.lemma[l].headword = Val(input[i].word)
               /\ rows.pos[p].code = strip(Val(input[i].pos))
               /\ <<l, p>> \in rows.lemma_pos
               /\ \A k \in DOMAIN input[i].senses :
                      LET row == rows.sense[SensesOf(AcceptedLines(i - 1)) + k]
                      IN  row.lemma_id = l /\ row.pos_id = p /\ row.sense_order = k - 1

IsEntryEnd ==
    /\ pc = "entry"
    /\ pc' = "read"
    /\ cur.idx = Len(entry.senses)
    /\ cur.fidx = Len(entry.forms)
    /\ line_no' = line_no + 1

IsStreamEnd == pc = "read" /\ ~HasLine /\ pc' = "done"

C15_CommitsAtEntryBoundaries ==
    [][/\ db' # db =>
              /\ IsEntryEnd \/ IsStreamEnd
              /\ db' = tx
              /\ tx' = tx
              /\ run = 1 => WholeEntries(db', line_no')
       /\ pc' = "entry" => db' = db
       /\ pc' = "aborted" => db' = db /\ tx' = db]_vars

\* the third accepted entry is under way, with a sense row the committed store does
\* not have; the committed store holds the batch of the first two entries
C15_Witness ==
    /\ pc = "entry"
    /\ run = 1
    /\ input = <<LogosLine, LogosAgainLine, CapitalLogosLine>>
    /\ line_no = 2
    /\ last_commit = 2
    /\ cur.idx = 1
    /\ Len(db.sense) = 1
    /\ Len(tx.sense) = 2
    /\ Len(db.lemma) = 1
    /\ Len(tx.lemma) = 2

====
